---- MODULE Spec2Model ----
(***************************************************************************)
(* TrackingHttp (src/src/trackingNetwork/trackingHttp.js): the network     *)
(* tracker bound to one Puppeteer page.  The model follows the class: its  *)
(* fields are the variables, every public method and every driver event    *)
(* listener is an action, and every `await` inside a method is a point at  *)
(* which other calls, timers and driver events may interleave.             *)
(*                                                                         *)
(* JavaScript Maps keep insertion order, so each Map is a sequence of      *)
(* entries with distinct keys.  A URL is a sequence of characters, so that *)
(* String.prototype.includes is substring search.                          *)
(***************************************************************************)
EXTENDS Naturals, Sequences, FiniteSets, TLC

\* ------------------------------------------------------------------ bounds
MaxEvents == 2     \* driver events delivered in one behaviour
MaxWaits == 2      \* waitForRequest/waitForResponse calls in one behaviour

\* ------------------------------------------------------------------ inputs
Pages == {"p1", "p2"}
NoPage == "null"
URLs == {<<"a">>, <<"a", "b">>}
StringMatchers == {[kind |-> "string", pat |-> <<"a">>], [kind |-> "string", pat |-> <<"b">>]}
Matchers == StringMatchers

\* An override map, the argument of helpers.continue and of request.continue,
\* is a set of <<key, value>> pairs with distinct keys.
NoOverrides == {}

Options == {NoOverrides, {<<"headers", "h1">>}, {<<"headers", "h2">>, <<"method", "POST">>}}

\* this.config.maxBodySize
maxBodySize == 10 * 1024 * 1024

\* What the driver's response object answers: status(), the content-type
\* header, the length of buffer() and what its bytes hold: the JSON text of
\* an object, the JSON text null, or text that is not JSON.
Responses ==
  [status : {200, 404},
   contentType : {"application/json", "text/plain", ""},
   length : {maxBodySize - 1, maxBodySize, maxBodySize + 1},
   content : {"object", "null", "text"}]

PlainResponse ==
  [status |-> 200, contentType |-> "text/plain", length |-> 1, content |-> "text"]

\* inputs of the matching functions taken on their own
ProbeURLs == {<<>>, <<"a">>, <<"b">>, <<"a", "b">>}
ProbePatterns == ProbeURLs \cup {<<"b", "a">>}
Methods == {"GET", "get", "POST"}
NoFilter == "none"
MethodFilters == Methods \cup {NoFilter}

\* ------------------------------------------------------------- Map helpers
\* Map.prototype.delete on a Map keyed by `id`
MapDelete(m, id) ==
  LET Keep(e) == e.id # id IN SelectSeq(m, Keep)

\* Map.prototype.set on a Map keyed by `url`: an existing key keeps its place
StoreSet(m, rec) ==
  IF \E i \in 1..Len(m) : m[i].url = rec.url
    THEN [i \in 1..Len(m) |-> IF m[i].url = rec.url THEN rec ELSE m[i]]
    ELSE Append(m, rec)

StoreHas(m, url) == \E i \in 1..Len(m) : m[i].url = url

StoreGet(m, url) == m[CHOOSE i \in 1..Len(m) : m[i].url = url]

\* ------------------------------------------------------------- _matchUrl
\* String.prototype.includes
Includes(url, pat) ==
  \E i \in 0..Len(url) :
    /\ i + Len(pat) <= Len(url)
    /\ \A j \in 1..Len(pat) : url[i + j] = pat[j]

\* JavaScript values a matcher can return, and ToBoolean of them as taken
\* by `if (this._matchUrl(...))`
JSValues == {"true", "false", "undefined", "null", "0", "", "object"}

Truthy(v) == v \notin {"false", "undefined", "null", "0", ""}

\* A predicate matcher is the table of its return values; a regular
\* expression is the set of URLs its test accepts.  _matchUrl returns the
\* value its branch returns: a boolean for a string and for a regular
\* expression, whatever the predicate returned for a function.
_matchUrl(url, matcher) ==
  IF matcher.kind = "string"
    THEN (IF Includes(url, matcher.pat) THEN "true" ELSE "false")
  ELSE IF matcher.kind = "regexp"
    THEN (IF url \in matcher.accepts THEN "true" ELSE "false")
  ELSE IF matcher.kind = "function" THEN matcher.returns[url]
  ELSE "false"

ProbeMatchers ==
  {[kind |-> "string", pat |-> q] : q \in ProbePatterns}
  \cup {[kind |-> "regexp", accepts |-> S] : S \in SUBSET ProbeURLs}
  \cup {[kind |-> "function", returns |-> [u \in ProbeURLs |-> IF u = t THEN v ELSE "false"]] :
          v \in JSValues, t \in ProbeURLs}
  \cup {[kind |-> "number"]}

\* String(method).toUpperCase()
toUpperCase(m) == IF m \in {"GET", "get"} THEN "GET" ELSE IF m = "POST" THEN "POST" ELSE m

\* the predicate the reduced tracker hands to page.waitForResponse: a string
\* or a regular expression must accept the url, a predicate rejects only by
\* returning the boolean false, and options.method, when given, must equal
\* the method of the response's request, both upper-cased
LitePredicate(matcher, method, url, reqMethod) ==
  LET methodFilter == IF method = NoFilter THEN NoFilter ELSE toUpperCase(method)
  IN IF matcher.kind = "string" /\ ~Includes(url, matcher.pat) THEN FALSE
     ELSE IF matcher.kind = "regexp" /\ url \notin matcher.accepts THEN FALSE
     ELSE IF matcher.kind = "function" /\ matcher.returns[url] = "false" THEN FALSE
     ELSE IF methodFilter # NoFilter /\ toUpperCase(reqMethod) # methodFilter THEN FALSE
     ELSE TRUE

\* `if (this._matchUrl(url, matcher))` at every place that selects by url
Matches(url, matcher) == Truthy(_matchUrl(url, matcher))

\* ------------------------------------------------------------------ state
VARIABLES
  probe,              \* a single call of a pure function: its arguments, its result
  disposed,           \* the ids of the handlers whose disposer has been called
  caps,               \* the budget of calls and events of this behaviour
  captureBody,        \* this.config.captureBody
  page,               \* this.page
  isEnabled,          \* this.isEnabled
  requests,           \* this.requests: Map url -> requestData
  responses,          \* this.responses: Map url -> responseData
  interceptHandlers,  \* this.interceptHandlers: Map id -> {matcher, handler, type}
  waitingRequests,    \* this.waitingRequests: Map id -> {matcher, resolve, reject}
  listening,          \* per page: the listeners enable() attached are in place
  life,               \* the enable()/disable() call suspended at its await
  waits,              \* per waitFor call: its promise, its timer, its matcher
  runs,               \* the _handleRequest/_handleResponse calls suspended at an await
  seq,                \* driver events delivered so far (a record's identity)
  nextId,             \* interception handlers registered so far
  failed,             \* the failureData emitted on 'requestfailed', in order
  last                \* the last step: "error" (a usage error thrown), "rejected"
                      \* (a driver call failed), "noop" (a call that returned at
                      \* its guard), "clear", "request" / "response" (a record
                      \* was stored), "resolved" (a wait settled inside its
                      \* call), or "ok"

vars == <<probe, failed, disposed, caps, captureBody, page, isEnabled, requests, responses, interceptHandlers,
          waitingRequests, listening, life, waits, runs, seq, nextId, last>>

Idle == [pc |-> "idle", page |-> NoPage]

\* What one behaviour may use: the pages enable() is called with, the
\* captureBody settings of the constructor, the driver events, the waitFor
\* calls, the intercept calls, the listeners suspended at an await at one
\* time, and what requests, responses, handlers and callers may do.  Each
\* mix of Budgets explores one part of the tracker in full: the lifecycle on
\* two pages, the waiters, overlapping events, the method filter, the
\* request pipeline, the response bodies.
\* Unless a mix says otherwise every request is a GET, no waitForResponse
\* passes options.method, no request handler calls helpers.continue and
\* every response is a short text with status 200.
Budget(pages, bodies, events, nwaits, handlers, nruns) ==
  [pages |-> pages, captureBody |-> bodies, events |-> events, waits |-> nwaits,
   handlers |-> handlers, runs |-> nruns, methods |-> {"GET"}, filters |-> {NoFilter},
   outcomes |-> {"none", "abort", "respond", "throw", "helperThrow"},
   options |-> {NoOverrides}, matchers |-> Matchers, types |-> {"request", "response"},
   responses |-> {PlainResponse}, failures |-> 0,
   writes |-> {"none", "modifyBody", "throw"}]

Budgets ==
  { Budget(Pages, BOOLEAN, 1, 1, 1, 1),
    Budget({"p1"}, {TRUE}, MaxEvents, MaxWaits, 0, 1),
    Budget({"p1"}, {TRUE}, MaxEvents, 0, 1, 2),
    \* waitForResponse with options.method, requests of several methods
    [Budget({"p1"}, {TRUE}, 2, 1, 0, 1) EXCEPT !.methods = Methods, !.filters = MethodFilters],
    \* one event through two handlers that may do anything a handler can do
    [Budget({"p1"}, {TRUE}, 1, 0, 2, 1) EXCEPT
       !.outcomes = {"none", "abort", "respond", "continue", "throw", "helperThrow",
                     "helperDrop", "continueThrow"},
       !.options = Options,
       !.matchers = {[kind |-> "string", pat |-> <<"a">>]},
       !.types = {"request"}],
    \* one response of every status, content type, length and content
    [Budget({"p1"}, BOOLEAN, 1, 0, 1, 1) EXCEPT
       !.responses = Responses,
       !.writes = {"none", "modifyBody", "setStatus", "throw"},
       !.matchers = {[kind |-> "string", pat |-> <<"a">>]},
       !.types = {"response"}],
    \* requests that fail, among requests and responses that do not
    [Budget({"p1"}, {TRUE}, 1, 0, 1, 1) EXCEPT
       !.failures = 1,
       !.outcomes = {"none"},
       !.matchers = {[kind |-> "string", pat |-> <<"a">>]},
       !.types = {"request"}] }

NoProbe == [op |-> "none"]

\* the fields as the constructor leaves them
Constructed ==
  /\ failed = <<>>
  /\ disposed = {}
  /\ page = NoPage
  /\ isEnabled = FALSE
  /\ requests = <<>>
  /\ responses = <<>>
  /\ interceptHandlers = <<>>
  /\ waitingRequests = <<>>
  /\ listening = [p \in Pages |-> FALSE]
  /\ life = Idle
  /\ waits = <<>>
  /\ runs = {}
  /\ seq = 0
  /\ nextId = 1
  /\ last = "ok"

\* constructor
Init ==
  /\ probe = NoProbe
  /\ caps \in Budgets
  /\ captureBody \in caps.captureBody
  /\ Constructed

\* ------------------------------------------------------ enable / disable
\* a guard that never throws
EnableRejects_Never == FALSE

\* enable(): `if (this.isEnabled) throw`
EnableRejects == isEnabled

\* enable(page) up to `await page.setRequestInterception(true)`
EnableCall(p) ==
  /\ p \in caps.pages
  /\ life.pc = "idle"
  /\ IF EnableRejects
       THEN /\ last' = "error"
            /\ UNCHANGED <<page, isEnabled, life>>
       ELSE /\ page' = p
            /\ isEnabled' = TRUE
            /\ life' = [pc |-> "enable", page |-> p]
            /\ last' = "ok"
  /\ UNCHANGED <<probe, failed, disposed, caps, captureBody, requests, responses, interceptHandlers, waitingRequests,
                 listening, waits, runs, seq, nextId>>

\* enable(page) after the await: the three page.on(...) calls, or the rejection
EnableResume(ok) ==
  /\ life.pc = "enable"
  /\ life' = Idle
  /\ IF ok
       THEN /\ listening' = [listening EXCEPT ![life.page] = TRUE]
            /\ last' = "ok"
       ELSE /\ last' = "rejected"
            /\ UNCHANGED listening
  /\ UNCHANGED <<probe, failed, disposed, caps, captureBody, page, isEnabled, requests, responses, interceptHandlers,
                 waitingRequests, waits, runs, seq, nextId>>

\* a clear() that drops the interception handlers along with the stores
clear_All ==
  /\ requests' = <<>>
  /\ responses' = <<>>
  /\ waitingRequests' = <<>>
  /\ interceptHandlers' = <<>>

\* clear(): the two stores and the waiter registry; nothing else is touched
clear ==
  /\ requests' = <<>>
  /\ responses' = <<>>
  /\ waitingRequests' = <<>>
  /\ UNCHANGED interceptHandlers

\* clear() called by the user
Clear ==
  /\ clear
  /\ last' = "clear"
  /\ UNCHANGED <<probe, failed, disposed, caps, captureBody, page, isEnabled, listening, life, waits, runs, seq, nextId>>

\* disable() up to `await this.page.setRequestInterception(false)`
DisableCall ==
  /\ life.pc = "idle"
  /\ IF ~isEnabled
       THEN /\ last' = "noop"
            /\ UNCHANGED <<life, isEnabled, page, requests, responses,
                           waitingRequests, interceptHandlers>>
       ELSE IF page # NoPage
         THEN /\ life' = [pc |-> "disable", page |-> page]
              /\ last' = "ok"
              /\ UNCHANGED <<isEnabled, page, requests, responses,
                             waitingRequests, interceptHandlers>>
         ELSE /\ clear
              /\ isEnabled' = FALSE
              /\ last' = "ok"
              /\ UNCHANGED <<life, page>>
  /\ UNCHANGED <<probe, failed, disposed, caps, captureBody, listening, waits, runs, seq, nextId>>

\* disable() after the await: removeAllListeners x3, clear(), isEnabled = false;
\* or the rejection of setRequestInterception, which leaves all of it undone
DisableResume(ok) ==
  /\ life.pc = "disable"
  /\ life' = Idle
  /\ IF ok
       THEN /\ listening' = [listening EXCEPT ![page] = FALSE]
            /\ clear
            /\ isEnabled' = FALSE
            /\ last' = "ok"
       ELSE /\ last' = "rejected"
            /\ UNCHANGED <<listening, requests, responses, waitingRequests,
                           interceptHandlers, isEnabled>>
  /\ UNCHANGED <<probe, failed, disposed, caps, captureBody, page, waits, runs, seq, nextId>>

\* ------------------------------------------------- interception handlers
\* interceptRequest / interceptResponse: a fresh id, appended to the Map
Intercept(m, type) ==
  /\ nextId <= caps.handlers
  /\ m \in caps.matchers
  /\ type \in caps.types
  /\ interceptHandlers' = Append(interceptHandlers, [id |-> nextId, matcher |-> m, type |-> type])
  /\ nextId' = nextId + 1
  /\ last' = "ok"
  /\ UNCHANGED <<probe, failed, disposed, caps, captureBody, page, isEnabled, requests, responses, waitingRequests,
                 listening, life, waits, runs, seq>>

\* a disposer that leaves the Map as it is
AfterDispose_Keep(hs, id) == hs

\* this.interceptHandlers.delete(id)
AfterDispose(hs, id) == MapDelete(hs, id)

\* the disposer returned at registration: () => this.interceptHandlers.delete(id)
Dispose(id) ==
  /\ id \in 1..(nextId - 1)
  /\ interceptHandlers' = AfterDispose(interceptHandlers, id)
  /\ disposed' = disposed \cup {id}
  /\ last' = "dispose"
  /\ UNCHANGED <<probe, failed, caps, captureBody, page, isEnabled, requests, responses, waitingRequests,
                 listening, life, waits, runs, seq, nextId>>

Min(S) == CHOOSE x \in S : \A y \in S : x <= y

\* a handler loop that does not look at the type of an entry
NextHandler_AnyType(hs, after, type, url) ==
  LET c == {i \in 1..Len(hs) : hs[i].id > after /\ Matches(url, hs[i].matcher)}
  IN IF c = {} THEN 0 ELSE hs[Min(c)].id

\* The for...of over this.interceptHandlers.entries(), resumed after the entry
\* with id `after`: a Map iterator is live, so it sees the Map as it is now.
\* The id of the next entry of this type whose matcher accepts url, or 0.
NextHandler(hs, after, type, url) ==
  LET c == {i \in 1..Len(hs) : /\ hs[i].id > after
                               /\ hs[i].type = type
                               /\ Matches(url, hs[i].matcher)}
  IN IF c = {} THEN 0 ELSE hs[Min(c)].id

\* ---------------------------------------------------------------- waiters
NewWait(kind, m) ==
  [kind |-> kind, matcher |-> m, method |-> NoFilter, state |-> "pending", timer |-> TRUE,
   expired |-> FALSE, value |-> 0, calls |-> 0]

\* a `resolve` wrapper without the clearTimeout
ResolvedWaiter_KeepTimer(w, data) ==
  [w EXCEPT !.state = IF @ = "pending" THEN "resolved" ELSE @,
            !.value = IF w.state = "pending" THEN data ELSE @,
            !.calls = @ + 1]

\* the `resolve` wrapper of waitForRequest: clearTimeout(timeoutId), then resolve(data)
ResolvedWaiter(w, data) ==
  [w EXCEPT !.state = IF @ = "pending" THEN "resolved" ELSE @,
            !.value = IF w.state = "pending" THEN data ELSE @,
            !.timer = FALSE,
            !.calls = @ + 1]

\* a `resolve` wrapper that leaves its entry in the registry
RegistryAfterResolve_Keep(reg, id) == reg

\* the `resolve` wrapper of waitForRequest: this.waitingRequests.delete(id)
RegistryAfterResolve(reg, id) == MapDelete(reg, id)

\* a timeout that forgets to call reject
RejectedWaiter_Silent(w) == [w EXCEPT !.timer = FALSE]

\* reject(new Error('Timeout waiting for ...')); the timer that ran is spent
RejectedWaiter(w) ==
  [w EXCEPT !.state = IF @ = "pending" THEN "rejected" ELSE @,
            !.timer = FALSE,
            !.calls = @ + 1]

\* a timer callback that leaves its entry in the registry
RegistryAfterTimeout_Keep(reg, id) == reg

\* the timer callback of waitForRequest: this.waitingRequests.delete(id)
RegistryAfterTimeout(reg, id) == MapDelete(reg, id)

\* waitForRequest(matcher): arm the timer, register the waiter
WaitForRequest(m) ==
  /\ Len(waits) < caps.waits
  /\ waits' = Append(waits, NewWait("request", m))
  /\ waitingRequests' = Append(waitingRequests, [id |-> Len(waits) + 1, matcher |-> m])
  /\ last' = "ok"
  /\ UNCHANGED <<probe, failed, disposed, caps, captureBody, page, isEnabled, requests, responses, interceptHandlers,
                 listening, life, runs, seq, nextId>>

\* the timer of waitForRequest fires
TimeoutFire(w) ==
  /\ w \in 1..Len(waits)
  /\ waits[w].kind = "request"
  /\ waits[w].timer
  /\ waitingRequests' = RegistryAfterTimeout(waitingRequests, w)
  /\ waits' = [waits EXCEPT ![w] = RejectedWaiter(@)]
  /\ last' = "ok"
  /\ UNCHANGED <<probe, failed, disposed, caps, captureBody, page, isEnabled, requests, responses, interceptHandlers,
                 listening, life, runs, seq, nextId>>

\* findRequest / findResponse: the first entry in Map order whose url matches
NoRecord == [url |-> <<>>, seq |-> 0]

FindFirst(store, matcher) ==
  LET c == {i \in 1..Len(store) : Matches(store[i].url, matcher)}
  IN IF c = {} THEN NoRecord ELSE store[Min(c)]

findRequest(matcher) == FindFirst(requests, matcher)

findResponse(matcher) == FindFirst(responses, matcher)

\* check() of waitForResponse: resolve with findResponse, or reject once the
\* timeout has elapsed, or setTimeout(check, 100)
Checked(w) ==
  LET r == findResponse(w.matcher)
  IN IF r.seq # 0 THEN [w EXCEPT !.state = "resolved", !.value = r.seq,
                                 !.timer = FALSE, !.calls = @ + 1]
     ELSE IF w.expired THEN RejectedWaiter(w)
     ELSE [w EXCEPT !.timer = TRUE]

\* waitForResponse(matcher, options): only options.timeout is read, so
\* options.method is kept by the caller alone; the first check() runs inside
\* the call
WaitForResponse(m, method) ==
  /\ Len(waits) < caps.waits
  /\ method \in caps.filters
  /\ waits' = Append(waits, Checked([NewWait("response", m) EXCEPT !.method = method]))
  /\ last' = IF waits'[Len(waits')].state = "resolved" THEN "resolved" ELSE "ok"
  /\ UNCHANGED <<probe, failed, disposed, caps, captureBody, page, isEnabled, requests, responses, interceptHandlers,
                 waitingRequests, listening, life, runs, seq, nextId>>

\* Date.now() - startTime passes the timeout of a polling waitForResponse
Expire(w) ==
  /\ w \in 1..Len(waits)
  /\ waits[w].kind = "response"
  /\ waits[w].timer
  /\ ~waits[w].expired
  /\ waits' = [waits EXCEPT ![w].expired = TRUE]
  /\ last' = "ok"
  /\ UNCHANGED <<probe, failed, disposed, caps, captureBody, page, isEnabled, requests, responses, interceptHandlers,
                 waitingRequests, listening, life, runs, seq, nextId>>

\* a scheduled check() of waitForResponse runs; a check that only reschedules
\* itself leaves the state as it is
Poll(w) ==
  /\ w \in 1..Len(waits)
  /\ waits[w].kind = "response"
  /\ waits[w].timer
  /\ Checked(waits[w]) # waits[w]
  /\ waits' = [waits EXCEPT ![w] = Checked(@)]
  /\ last' = "ok"
  /\ UNCHANGED <<probe, failed, disposed, caps, captureBody, page, isEnabled, requests, responses, interceptHandlers,
                 waitingRequests, listening, life, runs, seq, nextId>>

\* ------------------------------------------------------- request events
\* this.requests.get(url) when no request is stored under url
NoRequest == [url |-> <<>>, method |-> "undefined", seq |-> 0]

\* overrides = {...overrides, ...options}
Merge(overrides, options) ==
  {p \in overrides : ~\E q \in options : q[1] = p[1]} \cup options

\* `response` is the driver's response object _handleResponse was called with;
\* `overrides` and `shouldContinue` are the locals of _handleRequest;
\* `supplied` lists the maps the handlers passed to helpers.continue and
\* `issued` counts the calls of request.abort/respond/continue made for it;
\* `status` is responseData.status; `known` is the id the next registration
\* was to get when the event arrived.
Run(s, kind, url, pc, h, sc, body, req) ==
  [seq |-> s, kind |-> kind, url |-> url, pc |-> pc, h |-> h,
   shouldContinue |-> sc, body |-> body, request |-> req,
   overrides |-> NoOverrides, supplied |-> <<>>, issued |-> 0, response |-> PlainResponse,
   status |-> 0, known |-> nextId]

RECURSIVE SkipScan(_, _, _)
\* an index loop over an array that shrinks under it: the entry that follows a
\* resolved (and so removed) entry is never looked at
SkipScan(reg, url, i) ==
  IF i > Len(reg) THEN <<>>
  ELSE IF Matches(url, reg[i].matcher)
    THEN <<reg[i]>> \o SkipScan(MapDelete(reg, reg[i].id), url, i + 1)
    ELSE SkipScan(reg, url, i + 1)

_checkWaitingRequests_Skipping(reg, url) == SkipScan(reg, url, 1)

\* _checkWaitingRequests: the for...of over this.waitingRequests.entries().
\* waiter.resolve deletes the entry being visited; deleting the current entry
\* of a Map does not move its iterator, so every entry is visited.
\* The entries whose matcher accepts url, in Map order.
_checkWaitingRequests(reg, url) ==
  LET Accepts(e) == Matches(url, e.matcher) IN SelectSeq(reg, Accepts)

\* a waiter resolved with the first stored record its matcher accepts
WaiterData_Stale(data, matcher) == FindFirst(requests, matcher).seq

\* the data _checkWaitingRequests hands to waiter.resolve: this event's record
WaiterData(data, matcher) == data.seq

RECURSIVE ResolveAll(_, _)
\* the registry after waiter.resolve ran for each of `hit`
ResolveAll(reg, hit) ==
  IF hit = <<>> THEN reg
  ELSE ResolveAll(RegistryAfterResolve(reg, Head(hit).id), Tail(hit))

\* _handleRequest from the handler loop on, resumed after the entry `after`:
\* invoke the next matching handler and suspend at `await handler(...)`, or
\* leave the loop and call request.continue when shouldContinue still holds.
ReqLoop(r, after, sc, op) ==
  LET h == NextHandler(interceptHandlers, after, "request", r.url)
      others == {x \in runs : x.seq # r.seq}
  IN /\ last' = op
     /\ IF h # 0
          THEN runs' = others \cup
                         {[r EXCEPT !.pc = "handler", !.h = h, !.shouldContinue = sc]}
          ELSE IF sc
            THEN runs' = others \cup {[r EXCEPT !.pc = "continue", !.issued = @ + 1]}
            ELSE runs' = others

\* a _handleRequest that does not put its record in the store
RecordRequest_Skipped(store, data) == store

\* this.requests.set(url, requestData)
RecordRequest(store, data) == StoreSet(store, data)

\* the driver emits 'request' on a page the tracker listens to:
\* _handleRequest up to its first await
RequestEvent(p, u, method) ==
  /\ listening[p]
  /\ method \in caps.methods
  /\ seq < caps.events
  /\ Cardinality(runs) < caps.runs
  /\ LET data == [url |-> u, method |-> method, seq |-> seq + 1]
         hit == _checkWaitingRequests(waitingRequests, u)
         ids == {hit[i].id : i \in 1..Len(hit)}
     IN /\ seq' = seq + 1
        /\ requests' = RecordRequest(requests, data)
        /\ waits' = [w \in 1..Len(waits) |->
                       IF w \in ids
                         THEN ResolvedWaiter(waits[w], WaiterData(data, waits[w].matcher))
                         ELSE waits[w]]
        /\ waitingRequests' = ResolveAll(waitingRequests, hit)
        /\ ReqLoop(Run(seq + 1, "request", u, "start", 0, TRUE, "null", NoRequest), 0, TRUE, "request")
  /\ UNCHANGED <<probe, failed, disposed, caps, captureBody, page, isEnabled, responses, interceptHandlers,
                 listening, life, nextId>>

\* What `await handler(requestData, helpers)` can come to.
\*   none          the handler returned nothing
\*   abort         it returned helpers.abort(): request.abort is called and awaited
\*   respond       it returned helpers.respond(r): request.respond is called and awaited
\*   continue      it returned helpers.continue(options)
\*   throw         it threw: caught and logged, the loop goes on
\*   helperThrow   it called helpers.abort() or helpers.respond(), then threw
\*   helperDrop    it called helpers.abort() or helpers.respond() and returned nothing
\*   continueThrow it called helpers.continue(options), then threw
ReqOutcomes ==
  [kind : {"none", "abort", "respond", "throw", "helperThrow", "helperDrop"},
   options : {NoOverrides}]
  \cup [kind : {"continue", "continueThrow"}, options : Options]

\* `await handler(requestData, helpers)` settles.  The helpers act when they
\* are called: abort and respond clear shouldContinue, continue merges its
\* options into overrides; {...true} adds nothing to overrides afterwards.
HandlerReturn(r, out) ==
  /\ r \in runs
  /\ r.kind = "request"
  /\ r.pc = "handler"
  /\ out \in ReqOutcomes
  /\ out.kind \in caps.outcomes
  /\ out.options \in caps.options
  /\ IF out.kind \in {"abort", "respond"}
       THEN /\ runs' = (runs \ {r}) \cup
                         {[r EXCEPT !.pc = out.kind, !.shouldContinue = FALSE,
                                    !.issued = @ + 1]}
            /\ last' = out.kind
       ELSE IF out.kind \in {"continue", "continueThrow"}
         THEN ReqLoop([r EXCEPT !.overrides = Merge(@, out.options),
                                !.supplied = Append(@, out.options)],
                      r.h, r.shouldContinue, out.kind)
         ELSE ReqLoop(r, r.h, r.shouldContinue /\ out.kind \notin {"helperThrow", "helperDrop"},
                      out.kind)
  /\ UNCHANGED <<probe, failed, disposed, caps, captureBody, page, isEnabled, requests, responses, interceptHandlers,
                 waitingRequests, listening, life, waits, seq, nextId>>

\* `await request.abort(...)`, `await request.respond(...)` or
\* `await request.continue(overrides)` settles.  After abort or respond
\* _handleRequest returns; their rejection is caught by the try around the
\* handler and the loop goes on.  A rejection of continue is caught and logged.
DriverReturn(r, ok) ==
  /\ r \in runs
  /\ r.kind = "request"
  /\ r.pc \in {"abort", "respond", "continue"}
  /\ IF ok \/ r.pc = "continue"
       THEN /\ runs' = runs \ {r}
            /\ last' = IF ok THEN "ok" ELSE "rejected"
       ELSE ReqLoop(r, r.h, r.shouldContinue, "rejected")
  /\ UNCHANGED <<probe, failed, disposed, caps, captureBody, page, isEnabled, requests, responses, interceptHandlers,
                 waitingRequests, listening, life, waits, seq, nextId>>

\* ------------------------------------------------------ response events
\* _handleResponse from the handler loop on, resumed after the entry `after`
RespLoop(r, after, op) ==
  LET h == NextHandler(interceptHandlers, after, "response", r.url)
      others == {x \in runs : x.seq # r.seq}
  IN /\ last' = op
     /\ IF h # 0
          THEN runs' = others \cup {[r EXCEPT !.pc = "handler", !.h = h]}
          ELSE runs' = others

\* a record that takes the oldest stored request, whatever its url
Correlated_First(store, url) == IF store = <<>> THEN NoRequest ELSE store[1]

\* request: this.requests.get(url)
Correlated(store, url) == IF StoreHas(store, url) THEN StoreGet(store, url) ELSE NoRequest

\* _handleResponse from `const responseData = {...}` to the first handler:
\* the record takes this.requests.get(url) as its request and is stored
Record(r, body) ==
  LET req == Correlated(requests, r.url)
      data == [url |-> r.url, seq |-> r.seq, status |-> r.response.status, body |-> body,
               request |-> req]
  IN /\ responses' = StoreSet(responses, data)
     /\ RespLoop([r EXCEPT !.body = body, !.request = req, !.status = r.response.status],
                 0, "response")

\* the driver emits 'response': _handleResponse up to its first await, which
\* is response.buffer() when bodies are captured
ResponseEvent(p, u, resp) ==
  /\ listening[p]
  /\ resp \in caps.responses
  /\ seq < caps.events
  /\ Cardinality(runs) < caps.runs
  /\ seq' = seq + 1
  /\ LET r == [Run(seq + 1, "response", u, "buffer", 0, TRUE, "null", NoRequest)
                 EXCEPT !.response = resp]
     IN IF captureBody
          THEN /\ runs' = runs \cup {r}
               /\ last' = "ok"
               /\ UNCHANGED responses
          ELSE Record(r, "null")
  /\ UNCHANGED <<probe, failed, disposed, caps, captureBody, page, isEnabled, requests, interceptHandlers,
                 waitingRequests, listening, life, waits, nextId>>

\* a ceiling that a buffer of exactly maxBodySize bytes already exceeds
BodyOf_Strict(resp) ==
  IF resp.length < maxBodySize
    THEN IF resp.contentType = "application/json"
           THEN (IF resp.content = "object" THEN "json"
                 ELSE IF resp.content = "null" THEN "null" ELSE "utf8")
         ELSE IF resp.contentType = "text/plain" THEN "utf8"
         ELSE "base64"
    ELSE "null"

\* the body _handleResponse keeps of a buffer: null above maxBodySize, else
\* JSON.parse of the text for application/json (the text itself when that
\* throws), the text for text/..., base64 for every other content type
BodyOf(resp) ==
  IF resp.length <= maxBodySize
    THEN IF resp.contentType = "application/json"
           THEN (IF resp.content = "object" THEN "json"
                 ELSE IF resp.content = "null" THEN "null" ELSE "utf8")
         ELSE IF resp.contentType = "text/plain" THEN "utf8"
         ELSE "base64"
    ELSE "null"

\* `await response.buffer()` settles: the record is built and stored, or the
\* rejection goes to the outer catch and nothing is stored
BufferDone(r, ok) ==
  /\ r \in runs
  /\ r.kind = "response"
  /\ r.pc = "buffer"
  /\ IF ok
       THEN Record(r, BodyOf(r.response))
       ELSE /\ runs' = runs \ {r}
            /\ last' = "ok"
            /\ UNCHANGED responses
  /\ UNCHANGED <<probe, failed, disposed, caps, captureBody, page, isEnabled, requests, interceptHandlers,
                 waitingRequests, listening, life, waits, seq, nextId>>

\* what a response handler does with (responseData, {modifyBody}):
\* nothing, modifyBody(newBody), a write to responseData.status, a throw
RespOutcomes == {"none", "modifyBody", "setStatus", "throw"}

\* the status a handler writes into the responseData it was handed
WrittenStatus == 500

\* `await handler(responseData, {modifyBody})` settles.  modifyBody(newBody)
\* writes responseData.body and stores responseData under its url again.
\* responseData is the object the store holds for this event, so a write of
\* the handler to one of its fields shows in the store while that object is
\* still the one stored under the url.
RespHandlerReturn(r, out) ==
  /\ r \in runs
  /\ r.kind = "response"
  /\ r.pc = "handler"
  /\ out \in RespOutcomes
  /\ out \in caps.writes
  /\ IF out = "modifyBody"
       THEN /\ responses' = StoreSet(responses, [url |-> r.url, seq |-> r.seq,
                                                 status |-> r.status,
                                                 body |-> "new", request |-> r.request])
            /\ RespLoop([r EXCEPT !.body = "new"], r.h, out)
       ELSE IF out = "setStatus"
         THEN /\ responses' = [i \in 1..Len(responses) |->
                                 IF responses[i].seq = r.seq
                                   THEN [responses[i] EXCEPT !.status = WrittenStatus]
                                   ELSE responses[i]]
              /\ RespLoop([r EXCEPT !.status = WrittenStatus], r.h, out)
         ELSE /\ RespLoop(r, r.h, out)
              /\ UNCHANGED responses
  /\ UNCHANGED <<probe, failed, disposed, caps, captureBody, page, isEnabled, requests, interceptHandlers,
                 waitingRequests, listening, life, waits, seq, nextId>>

\* request.failure() of a failed request: null, or {errorText}
Failures == {"null", "net::ERR_FAILED"}

\* failure ? failure.errorText : 'Unknown error'
ErrorText(failure) == IF failure = "null" THEN "Unknown error" ELSE failure

\* a _handleRequestFailed that forgets the request that failed
StoreAfterFailure_Dropped(store, url) ==
  LET Other(d) == d.url # url IN SelectSeq(store, Other)

\* _handleRequestFailed reads the request and writes to no Map
StoreAfterFailure(store, url) == store

\* the driver emits 'requestfailed': failureData is built and emitted on
\* 'requestfailed'; nothing is stored
RequestFailedEvent(p, u, method, failure) ==
  /\ listening[p]
  /\ method \in caps.methods
  /\ Len(failed) < caps.failures
  /\ failed' = Append(failed, [url |-> u, method |-> method, errorText |-> ErrorText(failure)])
  /\ requests' = StoreAfterFailure(requests, u)
  /\ last' = "requestfailed"
  /\ UNCHANGED <<probe, disposed, caps, captureBody, page, isEnabled, responses, interceptHandlers,
                 waitingRequests, listening, life, waits, runs, seq, nextId>>

\* ---------------------------------------------------------- specification
Next ==
  \/ \E p \in Pages : EnableCall(p)
  \/ \E ok \in BOOLEAN : EnableResume(ok)
  \/ DisableCall
  \/ \E ok \in BOOLEAN : DisableResume(ok)
  \/ Clear
  \/ \E m \in Matchers, t \in {"request", "response"} : Intercept(m, t)
  \/ \E id \in 1..(nextId - 1) : Dispose(id)
  \/ \E m \in Matchers : WaitForRequest(m)
  \/ \E m \in Matchers, method \in MethodFilters : WaitForResponse(m, method)
  \/ \E w \in 1..Len(waits) : TimeoutFire(w)
  \/ \E w \in 1..Len(waits) : Expire(w)
  \/ \E w \in 1..Len(waits) : Poll(w)
  \/ \E p \in Pages, u \in URLs, method \in Methods : RequestEvent(p, u, method)
  \/ \E r \in runs, out \in ReqOutcomes : HandlerReturn(r, out)
  \/ \E r \in runs, ok \in BOOLEAN : DriverReturn(r, ok)
  \/ \E p \in Pages, u \in URLs, resp \in Responses \cup {PlainResponse} :
       ResponseEvent(p, u, resp)
  \/ \E r \in runs, ok \in BOOLEAN : BufferDone(r, ok)
  \/ \E r \in runs, out \in RespOutcomes : RespHandlerReturn(r, out)
  \/ \E p \in Pages, u \in URLs, method \in Methods, failure \in Failures :
       RequestFailedEvent(p, u, method, failure)

Spec == Init /\ [][Next]_vars

\* Timers fire: a setTimeout callback that is due runs, and the clock passes
\* every deadline.
FairSpec ==
  Spec /\ \A w \in 1..MaxWaits :
            WF_vars(TimeoutFire(w)) /\ WF_vars(Expire(w)) /\ WF_vars(Poll(w))

\* ------------------------------------------ the matching functions alone
\* One call of a matching function on every input: _matchUrl as the tracker's
\* finders, waiters and handler loops call it, and the predicate of the
\* reduced tracker's waitForResponse.
tracker == <<failed, disposed, caps, captureBody, page, isEnabled, requests, responses, interceptHandlers,
             waitingRequests, listening, life, waits, runs, seq, nextId, last>>

MatchInit ==
  /\ probe \in [op : {"input"}, url : ProbeURLs, matcher : ProbeMatchers,
                 method : MethodFilters, reqMethod : Methods, result : {"unset"}]
  /\ caps = Budget({}, {TRUE}, 0, 0, 0, 0)
  /\ captureBody = TRUE
  /\ Constructed

MatchUrlCall ==
  /\ probe.op = "input"
  /\ probe' = [probe EXCEPT !.op = "_matchUrl",
                            !.result = _matchUrl(probe.url, probe.matcher)]
  /\ UNCHANGED tracker

LitePredicateCall ==
  /\ probe.op = "input"
  /\ probe' = [probe EXCEPT
                 !.op = "predicate",
                 !.result = IF LitePredicate(probe.matcher, probe.method, probe.url,
                                             probe.reqMethod)
                              THEN "true" ELSE "false"]
  /\ UNCHANGED tracker

MatchNext == MatchUrlCall \/ LitePredicateCall

MatchSpec == MatchInit /\ [][MatchNext]_vars

\* ------------------------------------------------------- retry wrappers
\* TelegramBot._withRetry and SelectorHelper._withRetry, one call of either.
MaxAttempts == 3

Helpers == {"TelegramBot", "SelectorHelper"}

\* an option of the options object: <<>> when the key is absent, <<v>> when
\* it is given as v
AttemptOptions == {<<>>} \cup {<<n>> : n \in 0..MaxAttempts}
DelayOptions == {<<>>, <<0>>, <<500>>}

DefaultAttempts == 3
DefaultDelay == 1000

\* this.config = { key: options.key || default, ..., ...options }: the
\* spread at the end puts back whatever the caller gave for the key
ConfigValue(opt, default) ==
  LET orDefault == IF opt = <<>> \/ opt[1] = 0 THEN default ELSE opt[1]
  IN IF opt = <<>> THEN orDefault ELSE opt[1]

\* the sleep after failed attempt i (from 0): this.config.retryDelay * (i + 1)
\* in TelegramBot; `delay`, which click() leaves at its default, in
\* SelectorHelper
RetrySleep(helper, retryDelay, i) ==
  IF helper = "TelegramBot" THEN retryDelay * (i + 1) ELSE DefaultDelay

\* no error: the initial value of `let lastError`
Undefined == 0

RetryInit ==
  /\ probe \in [op : {"retry"}, helper : Helpers, attempts : AttemptOptions,
                 delay : DelayOptions, pc : {"start"}, i : {0}, calls : {0},
                 slept : {<<>>}, lastError : {Undefined}, value : {Undefined}]
  /\ caps = Budget({}, {TRUE}, 0, 0, 0, 0)
  /\ captureBody = TRUE
  /\ Constructed

\* retryAttempts of the config (TelegramBot), opts.retryAttempts passed as
\* maxAttempts by click() (SelectorHelper)
maxAttempts(p) == ConfigValue(p.attempts, DefaultAttempts)

\* the loop test `i < maxAttempts` for i, then fn() is called or lastError
\* is thrown
LoopTest(p, i) ==
  IF i < maxAttempts(p)
    THEN [p EXCEPT !.pc = "call", !.i = i, !.calls = @ + 1]
    ELSE [p EXCEPT !.pc = "thrown", !.i = i, !.value = p.lastError]

\* _withRetry(fn) up to its first await
WithRetryCall ==
  /\ probe.op = "retry"
  /\ probe.pc = "start"
  /\ probe' = LoopTest(probe, 0)
  /\ UNCHANGED tracker

\* `await fn()` settles: its value is returned, or its error is kept and the
\* wrapper sleeps when another attempt is left.  The error of the n-th call
\* is n.
FnSettles(ok) ==
  /\ probe.op = "retry"
  /\ probe.pc = "call"
  /\ probe' =
       IF ok
         THEN [probe EXCEPT !.pc = "returned", !.value = probe.calls]
         ELSE LET failedOnce == [probe EXCEPT !.lastError = probe.calls]
              IN IF probe.i < maxAttempts(probe) - 1
                   THEN [failedOnce EXCEPT
                           !.pc = "sleep",
                           !.slept = Append(@, RetrySleep(probe.helper,
                                                           ConfigValue(probe.delay, DefaultDelay),
                                                           probe.i))]
                   ELSE LoopTest(failedOnce, probe.i + 1)
  /\ UNCHANGED tracker

\* `await this._sleep(...)` is over: i++ and the loop test
SleepDone ==
  /\ probe.op = "retry"
  /\ probe.pc = "sleep"
  /\ probe' = LoopTest(probe, probe.i + 1)
  /\ UNCHANGED tracker

RetryNext ==
  \/ WithRetryCall
  \/ \E ok \in BOOLEAN : FnSettles(ok)
  \/ SleepDone

RetrySpec == RetryInit /\ [][RetryNext]_vars

\* ------------------------------------------------------- captcha polling
\* OmoCaptchaProvider: one call of imageToText or tiktok3DSelectObjectWeb,
\* through createTask and the polling loop of waitForResult.
MaxPolls == 3

Solvers == {"imageToText", "tiktok3DSelectObjectWeb"}

\* this.timeout and the time an await takes, in units of the clock
Timeouts == {1, 2}
Ticks == 0..2

\* what `await this.http.post('/createTask', ...)` gives: a body with
\* errorId 0 and a taskId, a body with another errorId, a rejection
CreateOutcomes == {"taskId", "errorId", "rejected"}

\* what `await this.getTaskResult(taskId)` gives: a ready result with its
\* solution, a ready result without one, a result still processing, a body
\* with an errorId other than 0, an empty body (null), a rejection
PollOutcomes == {"ready", "readyBare", "processing", "errorId", "null", "rejected"}

\* a deadline that is already passed when the clock reaches it
TimedOut_AtDeadline(elapsed, timeout) == elapsed >= timeout

\* Date.now() - startTime > this.timeout
TimedOut(elapsed, timeout) == elapsed > timeout

CaptchaInit ==
  /\ probe \in [op : {"captcha"}, solver : Solvers, timeout : Timeouts, pc : {"start"},
                 polls : {0}, elapsed : {0}, seen : {<<>>}, end : {"none"},
                 outcome : {"none"}, error : {"none"}]
  /\ caps = Budget({}, {TRUE}, 0, 0, 0, 0)
  /\ captureBody = TRUE
  /\ Constructed

\* the catch of imageToText / tiktok3DSelectObjectWeb:
\* return { success: false, error: err.message }
Caught(p, message) == [p EXCEPT !.pc = "done", !.outcome = "failure", !.error = message]

\* the top of `while (true)` in waitForResult: the timeout is thrown, or
\* getTaskResult is called
LoopTop(p) ==
  IF TimedOut(p.elapsed, p.timeout)
    THEN Caught([p EXCEPT !.end = "timeout"], "Captcha solving timeout")
    ELSE [p EXCEPT !.pc = "poll", !.polls = @ + 1]

\* imageToText(...) or tiktok3DSelectObjectWeb(...) up to the await of
\* http.post in createTask
SolveCall ==
  /\ probe.op = "captcha"
  /\ probe.pc = "start"
  /\ probe' = [probe EXCEPT !.pc = "create"]
  /\ UNCHANGED tracker

\* the post of createTask settles: the taskId goes to waitForResult, which
\* takes startTime and enters its loop; an errorId other than 0 or a
\* rejection is thrown and caught by the solver
CreateTaskSettles(out) ==
  /\ probe.op = "captcha"
  /\ probe.pc = "create"
  /\ probe' = IF out = "taskId" THEN LoopTop(probe)
              ELSE IF out = "errorId" THEN Caught(probe, "Create task failed")
              ELSE Caught(probe, "request failed")
  /\ UNCHANGED tracker

\* `await this.getTaskResult(taskId)` settles after dt
GetTaskResultSettles(out, dt) ==
  /\ probe.op = "captcha"
  /\ probe.pc = "poll"
  /\ LET p == [probe EXCEPT !.elapsed = @ + dt, !.seen = Append(@, out)]
     IN probe' =
          CASE out = "rejected" -> Caught([p EXCEPT !.end = "rejected"], "request failed")
            [] out = "null" -> Caught([p EXCEPT !.end = "typeError"], "TypeError")
            [] out = "errorId" -> Caught([p EXCEPT !.end = "errorId"], "Task failed")
            [] out = "processing" -> [p EXCEPT !.pc = "sleep"]
            [] out = "ready" -> [p EXCEPT !.pc = "done", !.end = "ready", !.outcome = "success"]
            [] out = "readyBare" ->
                 \* result.solution.text throws for imageToText and is caught;
                 \* tiktok3DSelectObjectWeb reads result.solution || {}
                 IF p.solver = "imageToText"
                   THEN Caught([p EXCEPT !.end = "ready"], "TypeError")
                   ELSE [p EXCEPT !.pc = "done", !.end = "ready", !.outcome = "success"]
  /\ UNCHANGED tracker

\* the setTimeout of pollingInterval fires after dt: back to the loop top
PollSleepDone(dt) ==
  /\ probe.op = "captcha"
  /\ probe.pc = "sleep"
  /\ LET p == [probe EXCEPT !.elapsed = @ + dt]
     IN /\ TimedOut(p.elapsed, p.timeout) \/ p.polls < MaxPolls
        /\ probe' = LoopTop(p)
  /\ UNCHANGED tracker

CaptchaNext ==
  \/ SolveCall
  \/ \E out \in CreateOutcomes : CreateTaskSettles(out)
  \/ \E out \in PollOutcomes, dt \in Ticks : GetTaskResultSettles(out, dt)
  \/ \E dt \in Ticks : PollSleepDone(dt)

CaptchaSpec == CaptchaInit /\ [][CaptchaNext]_vars

\* ------------------------------------------------------------------ claims
TrackerState == <<page, isEnabled, requests, responses, waitingRequests,
                  interceptHandlers, listening, life, waits, runs>>

\* C1: enable(page) called while the tracker is Enabled throws and leaves the
\* bound page, the flag, both stores, the waiter registry and the handler list
\* as they were; disable() called while Disabled returns having changed
\* nothing and having started no driver call.
C1_GuardedLifecycle ==
  [][/\ ((\E p \in Pages : EnableCall(p)) /\ isEnabled)
          => (last' = "error" /\ UNCHANGED TrackerState)
     /\ (DisableCall /\ ~isEnabled)
          => (last' = "noop" /\ UNCHANGED TrackerState)]_vars

\* enable() was refused on a tracker that holds records, a waiter and a handler
C1_Witness ==
  /\ last = "error"
  /\ isEnabled
  /\ page \in Pages
  /\ requests # <<>>
  /\ waitingRequests # <<>>
  /\ interceptHandlers # <<>>

\* C2: while the tracker is Disabled (before the first enable, or once
\* disable() has returned) both stores are empty: no driver event, not even
\* one whose handling was suspended when disable() ran, adds a record.
C2_DisabledIsInert ==
  ~isEnabled => (requests = <<>> /\ responses = <<>>)

InRegistry(reg, w) == \E i \in 1..Len(reg) : reg[i].id = w

\* C3: the code calls resolve or reject of a wait's promise at most once in
\* all, and a resolved wait has no timer left that could reject it.
C3_SettledOnce ==
  \A w \in 1..Len(waits) :
    /\ waits[w].calls <= 1
    /\ (waits[w].state = "pending") = (waits[w].calls = 0)
    /\ waits[w].state = "resolved" => ~waits[w].timer

\* one waitForRequest was resolved by an event, another ran into its timeout
\* although a request its matcher accepts is in the store
C3_Witness ==
  \E v, w \in 1..Len(waits) :
    /\ waits[v].kind = "request" /\ waits[v].state = "resolved"
    /\ waits[w].kind = "request" /\ waits[w].state = "rejected"
    /\ Matches(<<"a", "b">>, waits[w].matcher)
    /\ StoreHas(requests, <<"a", "b">>)

\* this step stored the record of a new request event for url u
NewRequest(u) ==
  /\ seq' = seq + 1
  /\ StoreHas(requests', u)
  /\ StoreGet(requests', u).seq = seq'

Settled(w) == w <= Len(waits) /\ waits[w].state # "pending"

\* C4 as claimed: a pending waitForRequest whose deadline has not passed is
\* resolved by the next request event its matcher accepts, also after clear().
C4_ResolvedByMatchingEvent ==
  [][\A w \in 1..Len(waits), u \in URLs :
       (/\ waits[w].kind = "request"
        /\ waits[w].state = "pending"
        /\ waits[w].timer
        /\ Matches(u, waits[w].matcher)
        /\ NewRequest(u))
       => waits'[w].state = "resolved"]_vars

\* C4 amended: every wait settles when timers fire, whatever clear() and
\* disable() do meanwhile; a waitForRequest is resolved by a matching request
\* event as long as its waiter is in the registry, and never once clear() or
\* disable() has dropped it; a promise is rejected only by its timeout.
C4_SettlesWhileRegistered ==
  /\ \A w \in 1..MaxWaits : (w <= Len(waits)) ~> Settled(w)
  /\ [][\A w \in 1..Len(waits) :
         /\ \A u \in URLs :
              (/\ waits[w].kind = "request"
               /\ waits[w].state = "pending"
               /\ InRegistry(waitingRequests, w)
               /\ Matches(u, waits[w].matcher)
               /\ NewRequest(u))
              => waits'[w].state = "resolved"
         /\ (/\ waits[w].kind = "request"
             /\ waits[w].state = "pending"
             /\ ~InRegistry(waitingRequests, w))
              => waits'[w].state # "resolved"
         /\ (waits[w].state = "pending" /\ waits'[w].state = "rejected")
              => \/ waits[w].kind = "request" /\ waits[w].timer /\ UNCHANGED seq
                 \/ /\ waits[w].kind = "response"
                    /\ waits[w].expired
                    /\ findResponse(waits[w].matcher) = NoRecord]_vars

\* clear() ran while a waitForRequest was pending: its promise is still pending,
\* its timer still armed, its registry entry gone
C4_Witness ==
  \E w \in 1..Len(waits) :
    /\ waits[w].kind = "request"
    /\ waits[w].state = "pending"
    /\ waits[w].timer
    /\ ~InRegistry(waitingRequests, w)
    /\ isEnabled
    /\ listening[page]

Pending == {w \in 1..Len(waits) : waits[w].state = "pending"}

\* C5 as claimed: the registry holds exactly the pending waits.
C5_RegistryIsThePendingWaits ==
  /\ \A w \in 1..Len(waits) : (w \in Pending) = InRegistry(waitingRequests, w)
  /\ Len(waitingRequests) = Cardinality(Pending)

\* C5 amended: every registry entry is the one entry of a waitForRequest that
\* is still pending with its timer armed; none belongs to a settled wait, and
\* the registry is never larger than the set of pending waits.
C5_RegistryHoldsOnlyPending ==
  /\ \A i \in 1..Len(waitingRequests) :
       LET id == waitingRequests[i].id
       IN /\ id \in 1..Len(waits)
          /\ waits[id].kind = "request"
          /\ waits[id].state = "pending"
          /\ waits[id].timer
          /\ waits[id].matcher = waitingRequests[i].matcher
          /\ \A j \in 1..Len(waitingRequests) : waitingRequests[j].id = id => j = i
  /\ Len(waitingRequests) <= Cardinality(Pending)

\* one waitForRequest has settled and left the registry, another is pending in it
C5_Witness ==
  \E v, w \in 1..Len(waits) :
    /\ waits[v].kind = "request" /\ waits[v].state = "resolved"
    /\ waits[w].state = "pending" /\ InRegistry(waitingRequests, w)
    /\ ~InRegistry(waitingRequests, v)

\* C6: the step in which a wait is rejected also removes its registry entry,
\* and a rejected wait is never touched again: no later event resolves it or
\* finds it in the registry.
C6_TimeoutRemovesWaiter ==
  [][\A w \in 1..Len(waits) :
       /\ (waits[w].state = "pending" /\ waits'[w].state = "rejected")
            => ~InRegistry(waitingRequests', w)
       /\ waits[w].state = "rejected"
            => (waits'[w] = waits[w] /\ ~InRegistry(waitingRequests', w))]_vars

\* the record stored last, by the step just taken, is a request that the
\* matcher of an already rejected waitForRequest accepts
C6_Witness ==
  /\ last = "request"
  /\ \E w \in 1..Len(waits), i \in 1..Len(requests) :
       /\ waits[w].kind = "request"
       /\ waits[w].state = "rejected"
       /\ requests[i].seq = seq
       /\ Matches(requests[i].url, waits[w].matcher)

\* C7: a request event resolves every registered waiter whose matcher accepts
\* its url, each with that event's record, and removes each from the
\* registry; a resolved wait keeps its record whatever arrives later.
C7_FanOut ==
  [][/\ \A u \in URLs, i \in 1..Len(waitingRequests) :
          (NewRequest(u) /\ Matches(u, waitingRequests[i].matcher))
          => /\ waits'[waitingRequests[i].id].state = "resolved"
             /\ waits'[waitingRequests[i].id].value = seq'
             /\ ~InRegistry(waitingRequests', waitingRequests[i].id)
     /\ \A w \in 1..Len(waits) :
          waits[w].state = "resolved" => waits'[w] = waits[w]]_vars

\* two waitForRequest calls were resolved by the same event, and the request
\* just stored, a later one, is accepted by both matchers
C7_Witness ==
  /\ last = "request"
  /\ Len(waits) = 2
  /\ \A w \in 1..2 : waits[w].kind = "request" /\ waits[w].state = "resolved"
  /\ waits[1].value = waits[2].value
  /\ waits[1].value < seq
  /\ \E i \in 1..Len(requests) :
       /\ requests[i].seq = seq
       /\ \A w \in 1..2 : Matches(requests[i].url, waits[w].matcher)

\* C8 as claimed, for both strategies: a wait is never resolved inside the
\* call that made it, that is with a record stored before the call.
C8_NeverAStoredRecord ==
  [][Len(waits') = Len(waits) + 1 => waits'[Len(waits')].state = "pending"]_vars

\* C8 amended: waitForRequest is resolved only by the step that stores a new
\* request its matcher accepts, with that record, never inside its own call;
\* waitForResponse is resolved by a check, the first of which runs inside the
\* call, with the first stored response its matcher accepts, whenever stored.
C8_EventDrivenAndPolling ==
  [][\A w \in 1..Len(waits') :
       ((w > Len(waits) \/ waits[w].state = "pending") /\ waits'[w].state = "resolved")
       => IF waits'[w].kind = "request"
            THEN /\ w <= Len(waits)
                 /\ waits'[w].value = seq'
                 /\ \E u \in URLs : NewRequest(u) /\ Matches(u, waits'[w].matcher)
            ELSE /\ UNCHANGED <<responses, seq>>
                 /\ findResponse(waits'[w].matcher) # NoRecord
                 /\ waits'[w].value = findResponse(waits'[w].matcher).seq]_vars

\* a waitForResponse call has just been resolved inside the call, with a
\* response stored before it, next to a waitForRequest resolved by an event
C8_Witness ==
  /\ last = "resolved"
  /\ Len(waits) = 2
  /\ waits[1].kind = "request" /\ waits[1].state = "resolved"
  /\ waits[2].kind = "response" /\ waits[2].state = "resolved"

OnePerUrl(store) ==
  \A i, j \in 1..Len(store) : store[i].url = store[j].url => i = j

\* C9: each store holds at most one record per url, and a record of a url is
\* only ever replaced by the record of a later event for that url.
C9_NewestRecordPerUrl ==
  [][/\ OnePerUrl(requests') /\ OnePerUrl(responses')
     /\ \A i \in 1..Len(requests), j \in 1..Len(requests') :
          requests'[j].url = requests[i].url => requests'[j].seq >= requests[i].seq
     /\ \A i \in 1..Len(responses), j \in 1..Len(responses') :
          responses'[j].url = responses[i].url => responses'[j].seq >= responses[i].seq]_vars

\* C10: a clear() step leaves both stores and the registry empty and the
\* handlers and the enabled flag as they were; the handler Map changes only
\* by a registration or by a disposer, never by clear(), enable() or
\* disable(); and a request event invokes the first registered handler of
\* its type whose matcher accepts its url.
C10_ClearKeepsHandlers ==
  [][/\ last' = "clear"
          => /\ requests' = <<>> /\ responses' = <<>> /\ waitingRequests' = <<>>
             /\ interceptHandlers' = interceptHandlers
             /\ isEnabled' = isEnabled
     /\ interceptHandlers' # interceptHandlers
          => /\ UNCHANGED <<requests, responses, waitingRequests, isEnabled, life>>
             /\ \/ /\ nextId' = nextId + 1
                   /\ interceptHandlers = SubSeq(interceptHandlers', 1, Len(interceptHandlers))
                \/ \E id \in 1..(nextId - 1) :
                     interceptHandlers' = MapDelete(interceptHandlers, id)
     /\ \A u \in URLs :
          LET h == NextHandler(interceptHandlers, 0, "request", u)
          IN (NewRequest(u) /\ h # 0)
             => \E r \in runs' : r.seq = seq' /\ r.pc = "handler" /\ r.h = h]_vars

\* clear() has just run on an enabled tracker with a registered handler and
\* dropped the registry entry of a waitForRequest that is still pending
C10_Witness ==
  /\ last = "clear"
  /\ isEnabled
  /\ interceptHandlers # <<>>
  /\ requests = <<>> /\ responses = <<>> /\ waitingRequests = <<>>
  /\ \E w \in 1..Len(waits) :
       /\ waits[w].kind = "request"
       /\ waits[w].state = "pending"
       /\ waits[w].timer

\* what the matching rule asks of a string, a regular expression and a predicate
Accepted(url, matcher) ==
  IF matcher.kind = "string" THEN Includes(url, matcher.pat)
  ELSE IF matcher.kind = "regexp" THEN url \in matcher.accepts
  ELSE matcher.returns[url] # "false"

\* C11: as a condition, _matchUrl(U, matcher) holds iff U contains the string,
\* iff the regular expression's test accepts U, and for a predicate unless it
\* returned exactly false.
C11_MatcherSemantics ==
  (probe.op = "_matchUrl" /\ probe.matcher.kind \in {"string", "regexp", "function"})
  => (Truthy(probe.result) <=> Accepted(probe.url, probe.matcher))

\* C12: a waitForResponse called with options.method is resolved only with a
\* response whose request has that method, letter case ignored.
C12_MethodFilter ==
  \A w \in 1..Len(waits), i \in 1..Len(responses) :
    (/\ waits[w].kind = "response"
     /\ waits[w].state = "resolved"
     /\ waits[w].method # NoFilter
     /\ waits[w].value = responses[i].seq
     /\ responses[i].request # NoRequest)
    => toUpperCase(responses[i].request.method) = toUpperCase(waits[w].method)

\* C13: once request.abort or request.respond has been called for a request,
\* its pipeline only ends: no further handler is invoked for it and
\* request.continue is not called.
C13_ShortCircuitEndsPipeline ==
  [][\A r \in runs, r2 \in runs' :
       (r.kind = "request" /\ r.pc \in {"abort", "respond"} /\ r2.seq = r.seq) => r2 = r]_vars

\* the override maps of a run merged in the order they were supplied, a later
\* map winning for a key two maps supply
MergeAll(supplied) ==
  {p \in UNION {supplied[i] : i \in 1..Len(supplied)} :
     \E i \in 1..Len(supplied) :
       /\ p \in supplied[i]
       /\ \A j \in (i + 1)..Len(supplied) : ~\E q \in supplied[j] : q[1] = p[1]}

\* C14: when the handler of a request returns or throws, no abort or respond
\* having been issued for the request by it or before it, the next matching
\* handler is invoked or, after the last one, request.continue is called, for
\* the first time, with the maps supplied so far merged in order; a request
\* no handler matches continues at once with empty overrides.
C14_ContinueWithMergedOverrides ==
  [][/\ \A r \in runs :
          (/\ r.kind = "request" /\ r.pc = "handler" /\ r.issued = 0
           /\ r \notin runs'
           /\ last' \notin {"abort", "respond"})
          => LET nxt == NextHandler(interceptHandlers, r.h, "request", r.url)
             IN \E r2 \in runs' :
                  /\ r2.seq = r.seq
                  /\ r2.overrides = MergeAll(r2.supplied)
                  /\ IF nxt # 0 THEN r2.pc = "handler" /\ r2.h = nxt
                                ELSE r2.pc = "continue" /\ r2.issued = 1
     /\ \A u \in URLs :
          (NewRequest(u) /\ NextHandler(interceptHandlers, 0, "request", u) = 0)
          => \E r2 \in runs' : /\ r2.seq = seq' /\ r2.pc = "continue"
                                /\ r2.overrides = NoOverrides /\ r2.issued = 1]_vars

\* C15: at most one of request.abort, request.respond and request.continue is
\* ever called for a request, and the handling of a request does not end
\* before one of them has been called.
C15_ExactlyOneDisposition ==
  [][\A r \in runs :
       r.kind = "request"
       => /\ \A r2 \in runs' : r2.seq = r.seq => r2.issued <= 1
          /\ (~\E r2 \in runs' : r2.seq = r.seq) => r.issued = 1]_vars

\* C16: a handler that throws leaves the overrides and shouldContinue of its
\* run as they were when it was invoked, and the run goes on to the next
\* matching handler, or to request.continue, as if it had not matched.
C16_ThrowIsNoOpinion ==
  [][\A r \in runs :
       (/\ r.pc = "handler"
        /\ r \notin runs'
        /\ last' \in {"throw", "helperThrow", "continueThrow"})
       => LET nxt == NextHandler(interceptHandlers, r.h, r.kind, r.url)
              ends == r.kind = "response" \/ ~r.shouldContinue
          IN /\ UNCHANGED responses
             /\ IF nxt = 0 /\ ends
                  THEN ~\E r2 \in runs' : r2.seq = r.seq
                  ELSE \E r2 \in runs' :
                         /\ r2.seq = r.seq
                         /\ r2.overrides = r.overrides
                         /\ r2.shouldContinue = r.shouldContinue
                         /\ IF nxt # 0 THEN r2.pc = "handler" /\ r2.h = nxt
                                       ELSE r2.pc = "continue"]_vars

HandlerIds(hs) == {hs[i].id : i \in 1..Len(hs)}

\* C17: no handler whose disposer has been called is registered or is invoked,
\* by a new event or by a pipeline run under way that had not reached it; a
\* disposer removes its own entry and leaves the other entries in their
\* order; a disposer called again changes nothing.
C17_DisposedNeverInvoked ==
  [][/\ HandlerIds(interceptHandlers') \cap disposed' = {}
     /\ \A r \in runs' \ runs : r.pc = "handler" => r.h \notin disposed
     /\ disposed' # disposed
          => \E id \in HandlerIds(interceptHandlers) :
               /\ disposed' = disposed \cup {id}
               /\ interceptHandlers' = MapDelete(interceptHandlers, id)
     /\ (last' = "dispose" /\ disposed' = disposed)
          => UNCHANGED <<interceptHandlers, runs, requests, responses, waitingRequests>>]_vars

\* the second of two matching handlers was disposed of and the run of a
\* request has gone from the first handler to request.continue
C17_Witness ==
  /\ disposed = {2}
  /\ HandlerIds(interceptHandlers) = {1}
  /\ \E r \in runs : r.kind = "request" /\ r.pc = "continue" /\ r.h = 1

\* the record the step stores for the response event of run r
StoredFor(r, d) ==
  /\ StoreHas(responses', r.url)
  /\ d = StoreGet(responses', r.url)
  /\ d.seq = r.seq
  /\ d.url = r.url
  /\ d.status = r.response.status

\* C18 as claimed: the record of a response is stored with its url and status
\* whatever the size of its body, and its body is null exactly when the
\* buffer is longer than maxBodySize or bodies are not captured.
C18_NullOnlyAboveCeiling ==
  [][\A r \in runs \ runs' :
       (r.kind = "response" /\ r.pc = "buffer" /\ last' = "response")
       => \E d \in {StoreGet(responses', r.url)} :
            /\ StoredFor(r, d)
            /\ (d.body = "null") <=> (r.response.length > maxBodySize)]_vars

\* C18 amended: the record of a response is stored with its url and status
\* whatever the size of its body; the body is null when the buffer is longer
\* than maxBodySize; a buffer of at most maxBodySize bytes gives a body that
\* is null only when it is application/json holding the JSON text null; when
\* bodies are not captured the record is stored at once with a null body.
C18_BodyCeiling ==
  [][/\ \A r \in runs \ runs' :
          (r.kind = "response" /\ r.pc = "buffer" /\ last' = "response")
          => \E d \in {StoreGet(responses', r.url)} :
               /\ StoredFor(r, d)
               /\ r.response.length > maxBodySize => d.body = "null"
               /\ r.response.length <= maxBodySize
                    => ((d.body = "null") <=> (/\ r.response.contentType = "application/json"
                                               /\ r.response.content = "null"))
     /\ (~captureBody /\ seq' = seq + 1 /\ last' = "response")
          => \E i \in 1..Len(responses') :
               responses'[i].seq = seq' /\ responses'[i].body = "null"]_vars

\* a response of status 404 with a buffer one byte over the ceiling has been
\* stored with a null body and its run has gone on to a response handler
C18_Witness ==
  \E r \in runs, i \in 1..Len(responses) :
    /\ r.kind = "response" /\ r.pc = "handler"
    /\ captureBody
    /\ r.response.length = maxBodySize + 1
    /\ r.response.status = 404
    /\ responses[i].seq = r.seq
    /\ responses[i].status = 404
    /\ responses[i].body = "null"

\* C19: no waitForRequest or waitForResponse call made while the tracker is
\* not enabled creates a wait: no waiter is registered, no timer armed, no
\* polling started.
C19_NoWaitWhileDisabled ==
  [][Len(waits') > Len(waits) => isEnabled]_vars

\* C20: at most one driver event is part-way through its handling at any time.
C20_OneEventAtATime == Cardinality(runs) <= 1

\* the record of run r's event is the one stored under its url
HoldsRecordOf(store, r) == StoreHas(store, r.url) /\ StoreGet(store, r.url).seq = r.seq

HandlerBefore(r) ==
  IF \E q \in runs : q.seq = r.seq
    THEN (CHOOSE q \in runs : q.seq = r.seq).h
    ELSE 0

\* the registered handlers of run r's phase whose matcher accepts its url
Eligible(r) ==
  {interceptHandlers[i].id : i \in {j \in 1..Len(interceptHandlers) :
      /\ interceptHandlers[j].type = r.kind
      /\ Matches(r.url, interceptHandlers[j].matcher)}}

\* C22: a handler invoked for an event is registered for the event's phase and
\* its matcher accepts the url; it is the next such handler in registration
\* order after the one invoked before it, whose result has been awaited: an
\* event has one handler call or one driver call in flight at a time, and
\* continue is issued only when no eligible handler is left.
C22_RegistrationOrderAwaited ==
  [][/\ \A r \in runs' \ runs :
          r.pc = "handler"
          => /\ r.h \in Eligible(r)
             /\ r.h > HandlerBefore(r)
             /\ \A id \in Eligible(r) : ~(HandlerBefore(r) < id /\ id < r.h)
     /\ \A r \in runs' \ runs :
          r.pc = "continue" => \A id \in Eligible(r) : id <= HandlerBefore(r)
     /\ \A r, q \in runs' : r.seq = q.seq => r = q]_vars

\* the second of two eligible handlers is being invoked, after the first
C22_Witness ==
  \E r \in runs :
    /\ r.pc = "handler"
    /\ \E id \in Eligible(r) : id < r.h
    /\ r.h \in Eligible(r)

\* C23: when request.abort, request.respond or request.continue rejects, the
\* handling of that request is over: no further handler is invoked for it and
\* no other driver call is issued for it.
C23_DriverFailureIsTerminal ==
  [][\A r \in runs :
       (/\ r.kind = "request"
        /\ r.pc \in {"abort", "respond", "continue"}
        /\ r \notin runs'
        /\ last' = "rejected")
       => \A r2 \in runs' : r2.seq # r.seq]_vars

\* the records of a store
Records(store) == {store[i] : i \in 1..Len(store)}

\* C24: the response record created for url u carries as its request the
\* record the request store holds under u at that moment, and none when the
\* store holds no record under u; the request a stored response record
\* carries is never a record of another url.
C24_CorrelatedByUrl ==
  [][/\ last' = "response"
          => /\ Records(responses') \ Records(responses) # {}
             /\ \A d \in Records(responses') \ Records(responses) :
                  IF \E q \in Records(requests) : q.url = d.url
                    THEN d.request \in Records(requests) /\ d.request.url = d.url
                    ELSE d.request = NoRequest
     /\ \A d \in Records(responses') :
          d.request # NoRequest => d.request.url = d.url]_vars

\* a response record has just been created for a url whose request is stored
C24_Witness ==
  /\ last = "response"
  /\ \E d \in Records(responses) :
       /\ d.seq = seq
       /\ d.request \in Records(requests)
       /\ d.request.url = d.url

\* C25: a 'requestfailed' event emits exactly one notification, with the url,
\* the method and an error text, and leaves the request store, the response
\* store, the waiter registry, the waits and the handler list as they were:
\* the failure is in no store a find or getAll reads, and the record of the
\* request that failed is still there.
C25_FailureOnlyNotifies ==
  [][/\ last' = "requestfailed"
          => /\ Len(failed') = Len(failed) + 1
             /\ SubSeq(failed', 1, Len(failed)) = failed
             /\ failed'[Len(failed')].url \in URLs
             /\ failed'[Len(failed')].method \in Methods
             /\ failed'[Len(failed')].errorText \in {"Unknown error", "net::ERR_FAILED"}
             /\ UNCHANGED <<requests, responses, waitingRequests, waits,
                            interceptHandlers, runs, seq>>
     /\ failed' # failed => last' = "requestfailed"]_vars

\* a request that is stored has just failed; its record is still there
C25_Witness ==
  /\ last = "requestfailed"
  /\ failed # <<>>
  /\ \E d \in Records(requests) : d.url = failed[Len(failed)].url

\* C26: when a response handler has run, the stored record of its event has
\* the status captured from the driver, the records of other urls and the
\* request store are as they were, and after modifyBody the record stored
\* under the url has the new body.
C26_OnlyTheBodyChanges ==
  [][\A r \in runs :
       (r.kind = "response" /\ r.pc = "handler" /\ r \notin runs')
       => /\ \A d \in Records(responses') : d.seq = r.seq => d.status = r.response.status
          /\ \A d \in Records(responses) : d.url # r.url => d \in Records(responses')
          /\ requests' = requests
          /\ last' = "modifyBody" => StoreGet(responses', r.url).body = "new"]_vars

\* C27: the handler invoked for an event was registered before the event's
\* run started (`known` is the id the next registration was to get then).
C27_HandlersAsOfRunStart ==
  \A r \in runs : r.pc = "handler" => r.h < r.known

\* C28: when setRequestInterception rejects inside enable(page), the tracker
\* is Disabled again, with no page bound and no listener attached; and a
\* tracker at rest that is Enabled has its listeners on its page.
C28_FailedEnableLeavesDisabled ==
  [][/\ (life.pc = "enable" /\ life'.pc = "idle" /\ last' = "rejected")
          => /\ ~isEnabled'
             /\ page' = NoPage
             /\ \A p \in Pages : ~listening'[p]
     /\ (isEnabled' /\ life'.pc = "idle") => listening'[page']]_vars

\* C29: a call of a retry wrapper that has ended has called the operation at
\* least once and at most the configured number of times; it has slept once
\* between two attempts and not after the last one, retryDelay times the
\* attempt number in TelegramBot and a fixed delay in SelectorHelper; it
\* returned the value of the first success, which was the last call, or threw
\* the error of the last attempt.
C29_RetryContract ==
  (probe.op = "retry" /\ probe.pc \in {"returned", "thrown"})
  => /\ probe.calls >= 1
     /\ probe.calls <= maxAttempts(probe)
     /\ Len(probe.slept) = probe.calls - 1
     /\ \A k \in 1..Len(probe.slept) :
          probe.slept[k] = IF probe.helper = "TelegramBot"
                             THEN ConfigValue(probe.delay, DefaultDelay) * k
                             ELSE DefaultDelay
     /\ probe.value = probe.calls
     /\ probe.pc = "thrown" => probe.calls = maxAttempts(probe)

\* C30 as claimed: a waitForResult that has ended returned a ready result,
\* threw for an errorId other than 0, or threw the timeout.
C30_ThreeEndings ==
  (probe.op = "captcha" /\ probe.pc = "done" /\ probe.polls > 0)
  => probe.end \in {"ready", "errorId", "timeout"}

\* C30 amended: waitForResult ends by returning the first ready result, by
\* throwing for an errorId other than 0, by throwing the timeout at a loop
\* test where the elapsed time exceeds the timeout, or by the failure of
\* getTaskResult itself (a rejected request, an empty body); every result
\* before the last was still processing and no getTaskResult follows the
\* end.  The solver never rejects: it returns success only for a ready
\* result, and a failure with an error text for every other ending and for
\* a createTask that failed.
C30_EndingsOfPolling ==
  [][/\ (probe'.op = "captcha" /\ probe'.pc = "done")
          => /\ probe'.outcome \in {"success", "failure"}
             /\ probe'.end \in {"none", "ready", "errorId", "timeout", "rejected", "typeError"}
             /\ probe'.polls = Len(probe'.seen)
             /\ \A k \in 1..(Len(probe'.seen) - 1) : probe'.seen[k] = "processing"
             /\ probe'.end = "none" => probe'.polls = 0
             /\ probe'.end = "ready"
                  => probe'.seen[Len(probe'.seen)] \in {"ready", "readyBare"}
             /\ probe'.end = "errorId" => probe'.seen[Len(probe'.seen)] = "errorId"
             /\ probe'.end \in {"rejected", "typeError"}
                  => probe'.seen[Len(probe'.seen)] \in {"rejected", "null"}
             /\ probe'.end = "timeout"
                  => /\ probe'.elapsed > probe'.timeout
                     /\ probe'.polls > 0 => probe'.seen[Len(probe'.seen)] = "processing"
             /\ probe'.outcome = "success" => probe'.end = "ready" /\ probe'.error = "none"
             /\ probe'.end # "ready" => probe'.outcome = "failure"
             /\ probe'.outcome = "failure" => probe'.error # "none"
     /\ (probe.op = "captcha" /\ probe.pc = "done") => probe' = probe]_vars

\* the second poll of a solver gave the ready result and the solver returned
\* success
C30_Witness ==
  /\ probe.op = "captcha"
  /\ probe.pc = "done"
  /\ probe.end = "ready"
  /\ probe.polls = 2
  /\ probe.outcome = "success"

====
